---------------------------- MODULE Spec2Model ----------------------------
(***************************************************************************)
(* A model of bind9-ctl's reconciliation engine: the canonical record      *)
(* model (models.py), the diff engine (diffing.py), the SOA negotiator and *)
(* the plan/apply orchestrator (controller.py, gitops.py).                 *)
(*                                                                         *)
(* Python strings are sequences of one-character strings, so that          *)
(* strip(), lower(), upper(), split() and endswith() are computed          *)
(* character by character, as the code computes them.                      *)
(***************************************************************************)
EXTENDS Integers, Sequences, FiniteSets, TLC

VARIABLES
    \* --- the pure diff engine, applied to a pair of zone states ---
    zoneA,        \* a ZoneState's record list
    zoneB,        \* a ZoneState's record list
    diffAB,       \* diff_zones(A, B), or NoDiff before the call
    diffBA,       \* diff_zones(B, A)
    diffAA,       \* diff_zones(A, A)
    updateAB,     \* the update message built from diff_zones(A, B)
    dpc,          \* "start", then "done" after diff_zones, then "built"
    \* --- the plan/apply orchestrator and its collaborators ---
    config,       \* the AppConfig fields apply() reads
    live,         \* the live zone on the authoritative server (record list)
    zoneFile,     \* the on-disk zone artifact: <<>> when absent, else <<text>>
    plan,         \* <<>> before plan(), else <<PlanResult>>
    assume_yes,   \* the argument of the running apply() call
    answer,       \* <<>> or <<what the operator typed at the prompt of this apply()>>
    pc,           \* where the running plan()/apply() call is
    outcome,      \* how the last apply() call ended
    effects,      \* the external steps of the current apply() call, in order
    sent,         \* the batches handed to the update sender by this apply()
    plan_ignore,  \* desired_zone.ignore of the last plan() call
    \* --- the SOA negotiator, applied to one negotiation ---
    serial_strategy,  \* config.serial_strategy
    now,          \* the clock read by _suggest_serial
    soa_overrides,    \* desired.soa_overrides as a dict
    current_soa,  \* the records of the current zone state handed to _build_soa_config
    soaOut,       \* <<>> before _build_soa_config, else <<SOAConfig>> or <<"error">>
    \* --- the record model, applied to one owner and one origin ---
    ownerIn,      \* a Record's name
    originIn,     \* the origin handed to owner_for_zone
    canonOut,     \* <<>>, then <<canonical_name(x)>>, then also canonical_name of that
    relativeOut   \* <<>> or <<owner_for_zone(origin)>>

diffVars == <<zoneA, zoneB, diffAB, diffBA, diffAA, updateAB, dpc>>
ctlVars  == <<config, live, zoneFile, plan, assume_yes, answer, pc, outcome, effects, sent,
              plan_ignore>>
soaVars  == <<serial_strategy, now, soa_overrides, current_soa, soaOut>>
recVars  == <<ownerIn, originIn, canonOut, relativeOut>>
vars     == <<zoneA, zoneB, diffAB, diffBA, diffAA, updateAB, dpc,
              config, live, zoneFile, plan, assume_yes, answer, pc, outcome, effects, sent,
              plan_ignore,
              serial_strategy, now, soa_overrides, current_soa, soaOut,
              ownerIn, originIn, canonOut, relativeOut>>

---------------------------------------------------------------------------
(* Bounds of the model. *)

\* longest record list of a zone state handed to diff_zones
MaxRecords == 2

\* how far the serial of the live SOA is ahead of the candidate serial at
\* most (100 is tomorrow's date serial)
MaxSerialLead == 100

---------------------------------------------------------------------------
(* Python str operations on sequences of characters. *)

UpperLetters == <<"A","B","C","D","E","F","G","H","I","J","K","L","M",
                  "N","O","P","Q","R","S","T","U","V","W","X","Y","Z">>
LowerLetters == <<"a","b","c","d","e","f","g","h","i","j","k","l","m",
                  "n","o","p","q","r","s","t","u","v","w","x","y","z">>

\* the characters of the model in code-point order
CharOrder == <<" ", "*", "-", ".", "0", "1", "2", "3", "4", "5", "6", "7", "8",
               "9", "?", "@">> \o UpperLetters \o <<"_">> \o LowerLetters

IndexOf(c, s) == IF \E i \in 1..Len(s) : s[i] = c
                 THEN CHOOSE i \in 1..Len(s) : s[i] = c
                 ELSE 0

Ord(c) == IndexOf(c, CharOrder)

LowerChar(c) == IF IndexOf(c, UpperLetters) > 0
                THEN LowerLetters[IndexOf(c, UpperLetters)] ELSE c
UpperChar(c) == IF IndexOf(c, LowerLetters) > 0
                THEN UpperLetters[IndexOf(c, LowerLetters)] ELSE c

\* str.lower(), str.upper()
Lower(s) == [i \in 1..Len(s) |-> LowerChar(s[i])]
Upper(s) == [i \in 1..Len(s) |-> UpperChar(s[i])]

IsSpace(c) == c = " "

RECURSIVE LStrip(_)
LStrip(s) == IF s # <<>> /\ IsSpace(Head(s)) THEN LStrip(Tail(s)) ELSE s
RECURSIVE RStrip(_)
RStrip(s) == IF s # <<>> /\ IsSpace(s[Len(s)])
             THEN RStrip(SubSeq(s, 1, Len(s) - 1)) ELSE s
\* str.strip()
Strip(s) == RStrip(LStrip(s))

\* str.endswith(suffix)
EndsWith(s, suffix) ==
    /\ Len(suffix) <= Len(s)
    /\ SubSeq(s, Len(s) - Len(suffix) + 1, Len(s)) = suffix

\* str.split(): the maximal runs of non-whitespace characters
RECURSIVE SplitFrom(_, _, _)
SplitFrom(s, cur, acc) ==
    IF s = <<>> THEN (IF cur = <<>> THEN acc ELSE Append(acc, cur))
    ELSE IF IsSpace(Head(s))
         THEN SplitFrom(Tail(s), <<>>, IF cur = <<>> THEN acc ELSE Append(acc, cur))
         ELSE SplitFrom(Tail(s), Append(cur, Head(s)), acc)
Split(s) == SplitFrom(s, <<>>, <<>>)

\* " ".join(parts)
RECURSIVE Join(_)
Join(parts) == IF parts = <<>> THEN <<>>
               ELSE IF Len(parts) = 1 THEN parts[1]
               ELSE parts[1] \o <<" ">> \o Join(Tail(parts))

\* str(n) for an int n >= 0
Digits == <<"0", "1", "2", "3", "4", "5", "6", "7", "8", "9">>
RECURSIVE IntToStr(_)
IntToStr(n) == IF n < 10 THEN <<Digits[n + 1]>>
               ELSE Append(IntToStr(n \div 10), Digits[(n % 10) + 1])

\* s < t for two str, by code point
RECURSIVE StrLess(_, _)
StrLess(s, t) ==
    IF t = <<>> THEN FALSE
    ELSE IF s = <<>> THEN TRUE
    ELSE IF Head(s) = Head(t) THEN StrLess(Tail(s), Tail(t))
    ELSE Ord(Head(s)) < Ord(Head(t))

---------------------------------------------------------------------------
(* models.py: the record model. *)

\* an absent priority (None) is <<>>, a priority p is <<p>>
NoPriority == <<>>

Rec(n, t, l, v, p) == [name |-> n, type |-> t, ttl |-> l, value |-> v, priority |-> p]

\* _ensure_absolute appending the dot without looking for one
EnsureAbsoluteAlwaysAppends(name) ==
    LET stripped == Strip(name)
    IN  IF stripped = <<>> THEN <<".">>
        ELSE IF stripped = <<"@">> THEN <<".">>
        ELSE Append(stripped, ".")

_ensure_absolute(name) ==
    LET stripped == Strip(name)
    IN  IF stripped = <<>> THEN <<".">>
        ELSE IF stripped = <<"@">> THEN <<".">>
        ELSE IF EndsWith(stripped, <<".">>) THEN stripped
        ELSE Append(stripped, ".")

canonical_name(r) == Lower(_ensure_absolute(r.name))

canonical_type(r) == Upper(r.type)

T_CNAME == <<"C","N","A","M","E">>
T_NS    == <<"N","S">>
T_PTR   == <<"P","T","R">>
T_MX    == <<"M","X">>
T_SRV   == <<"S","R","V">>
T_SOA   == <<"S","O","A">>
T_A     == <<"A">>

canonical_value(r) ==
    LET stripped == Strip(r.value)
        ctype    == canonical_type(r)
        parts    == Split(stripped)
        value    ==
            IF ctype \in {T_CNAME, T_NS, T_PTR} THEN Lower(_ensure_absolute(stripped))
            ELSE IF ctype = T_MX THEN Lower(_ensure_absolute(stripped))
            ELSE IF ctype = T_SRV
                 THEN IF parts # <<>>
                      THEN Join([parts EXCEPT ![Len(parts)] =
                                    Lower(_ensure_absolute(parts[Len(parts)]))])
                      ELSE stripped
            ELSE stripped
    IN  IF r.priority # NoPriority
        THEN IntToStr(r.priority[1]) \o <<" ">> \o value
        ELSE value

\* Record.key()
key(r) == <<canonical_name(r), canonical_type(r), canonical_value(r)>>

\* ZoneDiff
ZoneDiff(a, r, t) == [added |-> a, removed |-> r, ttl_changed |-> t]

has_changes(d) == d.added # <<>> \/ d.removed # <<>> \/ d.ttl_changed # <<>>


---------------------------------------------------------------------------
(* Python dict: a sequence of [k, v] entries in insertion order. Assigning  *)
(* to a key that is present replaces its value and keeps its position.      *)

DictHas(d, k) == \E i \in 1..Len(d) : d[i].k = k

DictGet(d, k, default) ==
    IF DictHas(d, k) THEN d[CHOOSE i \in 1..Len(d) : d[i].k = k].v ELSE default

DictSet(d, k, v) ==
    IF DictHas(d, k)
    THEN [i \in 1..Len(d) |-> IF d[i].k = k THEN [k |-> k, v |-> v] ELSE d[i]]
    ELSE Append(d, [k |-> k, v |-> v])

DictKeys(d) == {d[i].k : i \in 1..Len(d)}

DictValues(d) == [i \in 1..Len(d) |-> d[i].v]

---------------------------------------------------------------------------
(* diffing.py: the diff engine. *)

\* _build_value_map skipping a record only when its type field is spelled "SOA"
RECURSIVE BuildValueMapExactSoa(_, _)
BuildValueMapExactSoa(records, index) ==
    IF records = <<>> THEN index
    ELSE LET record == Head(records)
             k      == <<canonical_name(record), canonical_type(record)>>
             inner  == DictGet(index, k, <<>>)
         IN  IF record.type = T_SOA
             THEN BuildValueMapExactSoa(Tail(records), index)
             ELSE BuildValueMapExactSoa(Tail(records),
                      DictSet(index, k, DictSet(inner, canonical_value(record), record)))

\* index[(name, type)][value] = record, SOA records skipped
RECURSIVE BuildValueMapFrom(_, _)
BuildValueMapFrom(records, index) ==
    IF records = <<>> THEN index
    ELSE LET record == Head(records)
             k      == <<canonical_name(record), canonical_type(record)>>
             inner  == DictGet(index, k, <<>>)
         IN  IF canonical_type(record) = T_SOA
             THEN BuildValueMapFrom(Tail(records), index)
             ELSE BuildValueMapFrom(Tail(records),
                      DictSet(index, k, DictSet(inner, canonical_value(record), record)))

_build_value_map(records) == BuildValueMapFrom(records, <<>>)

\* the order of sorted() on (name, type) tuples
KeyLess(a, b) == StrLess(a[1], b[1]) \/ (a[1] = b[1] /\ StrLess(a[2], b[2]))

RECURSIVE Sorted(_)
Sorted(S) ==
    IF S = {} THEN <<>>
    ELSE LET m == CHOOSE x \in S : \A y \in S \ {x} : KeyLess(x, y)
         IN  <<m>> \o Sorted(S \ {m})

\* DiffKey reporting a removal only when the whole (owner, type) is gone
DiffKeyWholeKeyRemoval(k, desired_map, current_map, diff) ==
    LET desired_values == DictGet(desired_map, k, <<>>)
        current_values == DictGet(current_map, k, <<>>)
        isAdded(e)   == ~DictHas(current_values, e.k)
        isChanged(e) == /\ DictHas(current_values, e.k)
                        /\ DictGet(current_values, e.k, e.v).ttl # e.v.ttl
        changed      == SelectSeq(desired_values, isChanged)
    IN  ZoneDiff(
            diff.added \o DictValues(SelectSeq(desired_values, isAdded)),
            diff.removed \o (IF desired_values = <<>> THEN DictValues(current_values) ELSE <<>>),
            diff.ttl_changed \o
                [i \in 1..Len(changed) |->
                    <<DictGet(current_values, changed[i].k, changed[i].v), changed[i].v>>])

\* DiffKey reporting a TTL change as a removal and an addition
DiffKeyTtlAsReplace(k, desired_map, current_map, diff) ==
    LET desired_values == DictGet(desired_map, k, <<>>)
        current_values == DictGet(current_map, k, <<>>)
        isAdded(e)   == \/ ~DictHas(current_values, e.k)
                        \/ DictGet(current_values, e.k, e.v).ttl # e.v.ttl
        isRemoved(e) == \/ ~DictHas(desired_values, e.k)
                        \/ DictGet(desired_values, e.k, e.v).ttl # e.v.ttl
    IN  ZoneDiff(
            diff.added \o DictValues(SelectSeq(desired_values, isAdded)),
            diff.removed \o DictValues(SelectSeq(current_values, isRemoved)),
            diff.ttl_changed)

\* the body of the loop over sorted(keys), lines 29-43
DiffKey(k, desired_map, current_map, diff) ==
    LET desired_values == DictGet(desired_map, k, <<>>)
        current_values == DictGet(current_map, k, <<>>)
        isAdded(e)   == ~DictHas(current_values, e.k)
        isChanged(e) == /\ DictHas(current_values, e.k)
                        /\ DictGet(current_values, e.k, e.v).ttl # e.v.ttl
        isRemoved(e) == ~DictHas(desired_values, e.k)
        changed      == SelectSeq(desired_values, isChanged)
    IN  ZoneDiff(
            diff.added \o DictValues(SelectSeq(desired_values, isAdded)),
            diff.removed \o DictValues(SelectSeq(current_values, isRemoved)),
            diff.ttl_changed \o
                [i \in 1..Len(changed) |->
                    <<DictGet(current_values, changed[i].k, changed[i].v), changed[i].v>>])

RECURSIVE DiffKeys(_, _, _, _)
DiffKeys(keys, desired_map, current_map, diff) ==
    IF keys = <<>> THEN diff
    ELSE DiffKeys(Tail(keys), desired_map, current_map,
                  DiffKey(Head(keys), desired_map, current_map, diff))

\* _build_value_map keeping the first record of a value, not the last
RECURSIVE BuildValueMapFirstWins(_, _)
BuildValueMapFirstWins(records, index) ==
    IF records = <<>> THEN index
    ELSE LET record == Head(records)
             k      == <<canonical_name(record), canonical_type(record)>>
             inner  == DictGet(index, k, <<>>)
         IN  IF canonical_type(record) = T_SOA \/ DictHas(inner, canonical_value(record))
             THEN BuildValueMapFirstWins(Tail(records), index)
             ELSE BuildValueMapFirstWins(Tail(records),
                      DictSet(index, k, DictSet(inner, canonical_value(record), record)))

\* diff_zones indexing the desired state first-wins and the current state last-wins
DiffZonesMixedIndex(desired, current) ==
    LET desired_map == BuildValueMapFirstWins(desired, <<>>)
        current_map == _build_value_map(current)
        keys        == DictKeys(desired_map) \cup DictKeys(current_map)
    IN  DiffKeys(Sorted(keys), desired_map, current_map, ZoneDiff(<<>>, <<>>, <<>>))

diff_zones(desired, current) ==
    LET desired_map == _build_value_map(desired)
        current_map == _build_value_map(current)
        keys        == DictKeys(desired_map) \cup DictKeys(current_map)
    IN  DiffKeys(Sorted(keys), desired_map, current_map, ZoneDiff(<<>>, <<>>, <<>>))

---------------------------------------------------------------------------
(* The zone states the diff engine is applied to. *)

N_a_z     == <<"a", ".", "z", ".">>
N_A_z_rel == <<"A", ".", "z">>
N_b_z     == <<"b", ".", "z", ".">>
N_z       == <<"z", ".">>

V_1       == <<"1">>
V_1_sp    == <<" ", "1">>
V_2       == <<"2">>
V_m_z     == <<"m", ".", "z", ".">>
V_M_z_rel == <<"M", ".", "z">>
V_soa     == <<"n", ".", " ", "h", ".", " ", "1", " ", "2", " ", "3", " ", "4", " ", "5">>

\* records that differ in every way the key abstracts from or keeps apart:
\* case and trailing dot of owner and value, case of the type, surrounding
\* blanks, TTL, priority, and an SOA
DiffRecords ==
    { Rec(N_a_z,     T_A,         300, V_1,       NoPriority),
      Rec(N_A_z_rel, <<"a">>,     600, V_1_sp,    NoPriority),
      Rec(N_a_z,     T_A,         300, V_2,       NoPriority),
      Rec(N_b_z,     T_MX,        300, V_m_z,     <<10>>),
      Rec(N_b_z,     <<"m","x">>, 600, V_M_z_rel, <<20>>),
      Rec(N_z,       T_SOA,       300, V_soa,     NoPriority) }

SeqsUpTo(S, n) == UNION {[1..m -> S] : m \in 0..n}

DiffZoneStates == SeqsUpTo(DiffRecords, MaxRecords)

---------------------------------------------------------------------------
(* models.py, renderer.py: the zone artifact. *)

\* Record.owner_for_zone(origin)
owner_for_zone(r, origin) ==
    LET absolute_origin == Lower(_ensure_absolute(origin))
        absolute_name   == canonical_name(r)
        relative        == SubSeq(absolute_name, 1, Len(absolute_name) - Len(absolute_origin))
        trimmed         == IF EndsWith(relative, <<".">>)
                           THEN SubSeq(relative, 1, Len(relative) - 1) ELSE relative
    IN  IF absolute_name = absolute_origin THEN <<"@">>
        ELSE IF EndsWith(absolute_name, absolute_origin)
             THEN (IF trimmed = <<>> THEN <<"@">> ELSE trimmed)
        ELSE absolute_name

_record_to_template_data(r, origin) ==
    [owner |-> owner_for_zone(r, origin),
     ttl   |-> r.ttl,
     type  |-> r.type,
     value |-> IF r.priority # NoPriority /\ canonical_type(r) \in {T_MX, T_SRV}
               THEN IntToStr(r.priority[1]) \o <<" ">> \o r.value
               ELSE r.value]

\* render_zone: the rows handed to the template, SOA records left out
render_zone(origin, records) ==
    LET kept == SelectSeq(records, LAMBDA r : canonical_type(r) # T_SOA)
    IN  [origin  |-> origin,
         records |-> [i \in 1..Len(kept) |-> _record_to_template_data(kept[i], origin)]]

---------------------------------------------------------------------------
(* controller.py: the ignore filter. *)

\* fnmatch.fnmatch for patterns of literals, "*" and "?"
RECURSIVE fnmatch(_, _)
fnmatch(s, p) ==
    IF p = <<>> THEN s = <<>>
    ELSE IF Head(p) = "*"
         THEN fnmatch(s, Tail(p)) \/ (s # <<>> /\ fnmatch(Tail(s), p))
    ELSE IF Head(p) = "?"
         THEN s # <<>> /\ fnmatch(Tail(s), Tail(p))
    ELSE s # <<>> /\ Head(s) = Head(p) /\ fnmatch(Tail(s), Tail(p))

\* _matches_pattern comparing the pattern as it is written
MatchesPatternCaseSensitive(name, patterns) ==
    \E i \in 1..Len(patterns) : fnmatch(Lower(name), patterns[i])

_matches_pattern(name, patterns) ==
    \E i \in 1..Len(patterns) : fnmatch(Lower(name), Lower(patterns[i]))

_filter_records(records, ignore_patterns) ==
    IF ignore_patterns = <<>> THEN records
    ELSE SelectSeq(records,
           LAMBDA r : canonical_type(r) = T_SOA \/ ~_matches_pattern(r.name, ignore_patterns))

---------------------------------------------------------------------------
(* controller.py: the operations of the dynamic strategy. *)

OpDelete(r) == [op |-> "delete", name |-> r.name, ttl |-> <<>>, type |-> r.type,
                value |-> r.value]
OpAdd(r)    == [op |-> "add", name |-> r.name, ttl |-> <<r.ttl>>, type |-> r.type,
                value |-> r.value]

\* BuildUpdate handling each TTL change in place: its add, then its delete
BuildUpdateAddFirst(diff) ==
    LET removals    == diff.removed
        additions   == diff.added
        ttl_changes == diff.ttl_changed
    IN  [i \in 1..Len(removals) |-> OpDelete(removals[i])]
        \o [i \in 1..Len(ttl_changes) |-> OpAdd(ttl_changes[i][2])]
        \o [i \in 1..Len(ttl_changes) |-> OpDelete(ttl_changes[i][1])]
        \o [i \in 1..Len(additions) |-> OpAdd(additions[i])]

\* BuildUpdate rewriting a TTL by an add alone, without the delete
BuildUpdateNoTtlDelete(diff) ==
    LET removals    == diff.removed
        additions   == diff.added
        ttl_changes == diff.ttl_changed
    IN  [i \in 1..Len(removals) |-> OpDelete(removals[i])]
        \o [i \in 1..Len(additions) |-> OpAdd(additions[i])]
        \o [i \in 1..Len(ttl_changes) |-> OpAdd(ttl_changes[i][2])]

\* the update message built by lines 157-167
BuildUpdate(diff) ==
    LET removals    == diff.removed
        additions   == diff.added
        ttl_changes == diff.ttl_changed
    IN  [i \in 1..Len(removals) |-> OpDelete(removals[i])]
        \o [i \in 1..Len(ttl_changes) |-> OpDelete(ttl_changes[i][1])]
        \o [i \in 1..Len(additions) |-> OpAdd(additions[i])]
        \o [i \in 1..Len(ttl_changes) |-> OpAdd(ttl_changes[i][2])]


---------------------------------------------------------------------------
(* The diff engine and the update builder applied to a pair of zone states. *)

NoDiff == ZoneDiff(<<>>, <<>>, <<>>)

InitCtlIdle ==
    /\ config = [apply_strategy |-> "dynamic", named_checkzone_bin |-> FALSE,
                 rndc_bin |-> FALSE, git_auto_commit |-> FALSE]
    /\ live = <<>>
    /\ zoneFile = <<>>
    /\ plan = <<>>
    /\ assume_yes = FALSE
    /\ answer = <<>>
    /\ pc = "idle"
    /\ outcome = "none"
    /\ effects = <<>>
    /\ sent = <<>>
    /\ plan_ignore = <<>>

\* no SOA negotiation is under way
InitSoaIdle ==
    /\ serial_strategy = "date"
    /\ now = [epoch |-> 0, date |-> <<>>]
    /\ soa_overrides = <<>>
    /\ current_soa = <<>>
    /\ soaOut = <<>>

\* no record is being canonicalised
InitRecIdle ==
    /\ ownerIn = <<>>
    /\ originIn = <<>>
    /\ canonOut = <<>>
    /\ relativeOut = <<>>

InitDiff ==
    /\ zoneA \in DiffZoneStates
    /\ zoneB \in DiffZoneStates
    /\ diffAB = NoDiff
    /\ diffBA = NoDiff
    /\ diffAA = NoDiff
    /\ updateAB = <<>>
    /\ dpc = "start"
    /\ InitCtlIdle
    /\ InitSoaIdle
    /\ InitRecIdle

\* diff_zones called on (A, B), on (B, A) and on (A, A)
CallDiffZones ==
    /\ dpc = "start"
    /\ diffAB' = diff_zones(zoneA, zoneB)
    /\ diffBA' = diff_zones(zoneB, zoneA)
    /\ diffAA' = diff_zones(zoneA, zoneA)
    /\ dpc' = "done"
    /\ UNCHANGED <<zoneA, zoneB, updateAB>>
    /\ UNCHANGED <<ctlVars, soaVars, recVars>>

\* the dynamic strategy builds its update message from diff_zones(A, B)
CallBuildUpdate ==
    /\ dpc = "done"
    /\ updateAB' = BuildUpdate(diffAB)
    /\ dpc' = "built"
    /\ UNCHANGED <<zoneA, zoneB, diffAB, diffBA, diffAA>>
    /\ UNCHANGED <<ctlVars, soaVars, recVars>>

NextDiff == CallDiffZones \/ CallBuildUpdate

SpecDiff == InitDiff /\ [][NextDiff]_vars

---------------------------------------------------------------------------
(* The same two calls on zone states built from the records of a zone apex  *)
(* and of a mail owner: SOA records whose type field is spelled in lower    *)
(* and in mixed case, with different values, an A record of the apex, and   *)
(* two MX records that differ in their priority alone.                      *)

V_soa_2 == <<"n", ".", " ", "h", ".", " ", "2", " ", "2", " ", "3", " ", "4", " ", "5">>

ApexRecords ==
    { Rec(N_z,   <<"s", "o", "a">>, 300, V_soa,   NoPriority),
      Rec(N_z,   <<"S", "o", "a">>, 600, V_soa_2, NoPriority),
      Rec(N_z,   T_A,               300, V_1,     NoPriority),
      Rec(N_b_z, T_MX,              300, V_m_z,   <<10>>),
      Rec(N_b_z, T_MX,              300, V_m_z,   <<20>>) }

ApexZoneStates == SeqsUpTo(ApexRecords, MaxRecords)

InitDiffSoa ==
    /\ zoneA \in ApexZoneStates
    /\ zoneB \in ApexZoneStates
    /\ diffAB = NoDiff
    /\ diffBA = NoDiff
    /\ diffAA = NoDiff
    /\ updateAB = <<>>
    /\ dpc = "start"
    /\ InitCtlIdle
    /\ InitSoaIdle
    /\ InitRecIdle

SpecDiffSoa == InitDiffSoa /\ [][NextDiff]_vars


---------------------------------------------------------------------------
(* The collaborators: the authoritative server and the operator. *)

\* int(s) for a str of digits
RECURSIVE StrToInt(_)
StrToInt(s) == IF s = <<>> THEN 0
               ELSE 10 * StrToInt(SubSeq(s, 1, Len(s) - 1)) + (IndexOf(s[Len(s)], Digits) - 1)

\* the owner of a zone-file row, made absolute against the origin
AbsoluteOwner(owner, origin) ==
    IF owner = <<"@">> THEN origin
    ELSE IF EndsWith(owner, <<".">>) THEN owner
    ELSE owner \o <<".">> \o origin

\* the record the server holds for a zone-file row, as an AXFR returns it
RowRecord(row, origin) ==
    LET parts == Split(row.value)
    IN  IF Upper(row.type) \in {T_MX, T_SRV} /\ Len(parts) >= 2
        THEN Rec(AbsoluteOwner(row.owner, origin), row.type, row.ttl,
                 Join(Tail(parts)), <<StrToInt(parts[1])>>)
        ELSE Rec(AbsoluteOwner(row.owner, origin), row.type, row.ttl, row.value, NoPriority)

\* rndc reload: the server replaces the zone by the records of the file
\* (it keeps an SOA of its own, which the diff never reads)
ReloadedZone(current, text) ==
    SelectSeq(current, LAMBDA r : canonical_type(r) = T_SOA)
    \o [i \in 1..Len(text.records) |-> RowRecord(text.records[i], text.origin)]

\* an operation names a record by owner, type and value
OpMatches(o, r) ==
    /\ Lower(_ensure_absolute(o.name)) = canonical_name(r)
    /\ Upper(o.type) = canonical_type(r)
    /\ Strip(o.value) = Strip(r.value)

\* the server applies the operations of one update message in order
RECURSIVE ServerApply(_, _)
ServerApply(zone, ops) ==
    IF ops = <<>> THEN zone
    ELSE LET o    == Head(ops)
             rest == SelectSeq(zone, LAMBDA r : ~OpMatches(o, r))
         IN  IF o.op = "delete"
             THEN ServerApply(rest, Tail(ops))
             ELSE ServerApply(Append(rest, Rec(o.name, o.type, o.ttl[1], o.value, NoPriority)),
                              Tail(ops))

\* what the operator may type at the prompt
S_y    == <<"y">>
S_yes  == <<"y", "e", "s">>
Answers ==
    { S_y, <<" ", "Y", "E", "S", " ">>, <<>>, <<"n">>, <<"y", "e">>, <<"y", "e", "s", "s">> }

\* _confirm accepting every answer that starts with y
ConfirmPrefixY(response) ==
    LET r == Lower(Strip(response)) IN r # <<>> /\ Head(r) = "y"

\* _confirm: the verdict on an answer
_confirm(response) == Lower(Strip(response)) \in {S_y, S_yes}

---------------------------------------------------------------------------
(* The inputs of plan(): desired states as load_desired_zone builds them   *)
(* (absolute owners, upper-case types), live zones as an AXFR returns them. *)

Origin == N_z

N_x_z == <<"x", ".", "z", ".">>
N_A_z == <<"A", ".", "z", ".">>

\* two desired states: one that changes a TTL and adds an MX, one that
\* restates the live A record
DesiredStates ==
    { << Rec(N_a_z, T_A, 600, V_1, NoPriority), Rec(N_b_z, T_MX, 300, V_m_z, <<10>>) >>,
      << Rec(N_a_z, T_A, 300, V_1, NoPriority) >> }

\* no pattern; an upper-case glob for the owners that start with x; a
\* lower-case glob for those that start with a, with the apex named outright
IgnoreLists == { <<>>, << <<"X", "*">> >>, << <<"a", "*">>, <<"z", ".">> >> }

\* the zone the server holds at the start
LiveZones ==
    { << Rec(N_z,   T_SOA, 300, V_soa, NoPriority),
         Rec(N_A_z, T_A,   300, V_1,   NoPriority),
         Rec(N_x_z, T_A,   300, V_2,   NoPriority) >>,
      << Rec(N_z,   T_SOA, 300, V_soa, NoPriority),
         Rec(N_A_z, T_A,   300, V_1,   NoPriority) >> }

Configs ==
    [apply_strategy : {"zone", "dynamic"}, named_checkzone_bin : BOOLEAN,
     rndc_bin : BOOLEAN, git_auto_commit : BOOLEAN]

PlanResult(desired, current, diff, render) ==
    [desired |-> desired, current |-> current, diff |-> diff, render |-> render]

Step(name, ok) == [step |-> name, ok |-> ok]

InitDiffIdle ==
    /\ zoneA = <<>>
    /\ zoneB = <<>>
    /\ diffAB = NoDiff
    /\ diffBA = NoDiff
    /\ diffAA = NoDiff
    /\ updateAB = <<>>
    /\ dpc = "start"

Init ==
    /\ InitDiffIdle
    /\ config \in Configs
    /\ live \in LiveZones
    /\ zoneFile = <<>>
    /\ plan = <<>>
    /\ assume_yes = FALSE
    /\ answer = <<>>
    /\ pc = "idle"
    /\ outcome = "none"
    /\ effects = <<>>
    /\ sent = <<>>
    /\ plan_ignore = <<>>
    /\ InitSoaIdle
    /\ InitRecIdle

---------------------------------------------------------------------------
(* controller.py: ZoneController.plan *)

\* lines 50-62 for a desired state that loads and a zone that transfers
\* (the negotiated SOA goes to the template only; the diff and apply() do not read it)
PlanOf(desired, ignore, current) ==
    PlanResult(desired, current,
               diff_zones(desired, _filter_records(current, ignore)),
               render_zone(Origin, desired))

\* plan() persisting the rendered artifact
PlanWritingFile ==
    /\ pc = "idle"
    /\ \E desired \in DesiredStates, ignore \in IgnoreLists :
         /\ plan' = <<PlanOf(desired, ignore, live)>>
         /\ plan_ignore' = ignore
         /\ zoneFile' = <<render_zone(Origin, desired)>>
    /\ UNCHANGED <<config, live, assume_yes, answer, pc, outcome, effects, sent>>
    /\ UNCHANGED <<diffVars, soaVars, recVars>>

Plan ==
    /\ pc = "idle"
    /\ \E desired \in DesiredStates, ignore \in IgnoreLists :
         /\ plan' = <<PlanOf(desired, ignore, live)>>
         /\ plan_ignore' = ignore
    /\ UNCHANGED <<config, live, zoneFile, assume_yes, answer, pc, outcome, effects, sent>>
    /\ UNCHANGED <<diffVars, soaVars, recVars>>

\* load_desired_zone, fetch_zone_state or _build_soa_config raises
PlanFails ==
    /\ pc = "idle"
    /\ plan' = <<>>
    /\ plan_ignore' = <<>>
    /\ UNCHANGED <<config, live, zoneFile, assume_yes, answer, pc, outcome, effects, sent>>
    /\ UNCHANGED <<diffVars, soaVars, recVars>>


---------------------------------------------------------------------------
(* controller.py: ZoneController.apply, one action per external step. *)

\* apply() returns or raises: the call is over
Ends(how) == pc' = "idle" /\ outcome' = how

\* apply() without the early return on an unchanged plan
ApplyBeginNoEarlyReturn ==
    /\ pc = "idle"
    /\ plan # <<>>
    /\ \E ay \in BOOLEAN :
         /\ assume_yes' = ay
         /\ pc' = IF ay THEN "write" ELSE "confirm"
         /\ outcome' = "running"
    /\ answer' = <<>>
    /\ effects' = <<>>
    /\ sent' = <<>>
    /\ UNCHANGED <<config, live, zoneFile, plan, plan_ignore>>
    /\ UNCHANGED <<diffVars, soaVars, recVars>>

\* lines 73-78: the entry of apply(plan_result, assume_yes)
ApplyBegin ==
    /\ pc = "idle"
    /\ plan # <<>>
    /\ \E ay \in BOOLEAN :
         /\ assume_yes' = ay
         /\ IF ~has_changes(plan[1].diff) THEN Ends("noop")
            ELSE /\ pc' = IF ay THEN "write" ELSE "confirm"
                 /\ outcome' = "running"
    /\ answer' = <<>>
    /\ effects' = <<>>
    /\ sent' = <<>>
    /\ UNCHANGED <<config, live, zoneFile, plan, plan_ignore>>
    /\ UNCHANGED <<diffVars, soaVars, recVars>>

\* lines 76-78, 106-110: the operator answers the prompt
Confirm ==
    /\ pc = "confirm"
    /\ \E response \in Answers :
         /\ answer' = <<response>>
         /\ IF _confirm(response)
            THEN pc' = "write" /\ UNCHANGED outcome
            ELSE Ends("aborted")
    /\ effects' = Append(effects, Step("confirm", TRUE))
    /\ UNCHANGED <<config, live, zoneFile, plan, plan_ignore, assume_yes, sent>>
    /\ UNCHANGED <<diffVars, soaVars, recVars>>

\* input() raises (the input stream is closed)
ConfirmFails ==
    /\ pc = "confirm"
    /\ effects' = Append(effects, Step("confirm", FALSE))
    /\ Ends("error")
    /\ UNCHANGED <<config, live, zoneFile, plan, plan_ignore, assume_yes, answer, sent>>
    /\ UNCHANGED <<diffVars, soaVars, recVars>>

\* line 79, 99-103: _write_zone_file
WriteZoneFile ==
    /\ pc = "write"
    /\ \E ok \in BOOLEAN :
         /\ effects' = Append(effects, Step("write", ok))
         /\ IF ok
            THEN /\ zoneFile' = <<plan[1].render>>
                 /\ pc' = "check"
                 /\ UNCHANGED outcome
            ELSE /\ UNCHANGED zoneFile
                 /\ Ends("error")
    /\ UNCHANGED <<config, live, plan, plan_ignore, assume_yes, answer, sent>>
    /\ UNCHANGED <<diffVars, soaVars, recVars>>

\* _maybe_run_named_checkzone ignoring the checker's exit status
CheckZoneUnchecked ==
    /\ pc = "check"
    /\ IF ~config.named_checkzone_bin
       THEN UNCHANGED effects
       ELSE \E ok \in BOOLEAN : effects' = Append(effects, Step("checkzone", ok))
    /\ pc' = "dispatch"
    /\ UNCHANGED <<config, live, zoneFile, plan, plan_ignore, assume_yes, answer, sent, outcome>>
    /\ UNCHANGED <<diffVars, soaVars, recVars>>

\* line 80, 113-120: _maybe_run_named_checkzone
CheckZone ==
    /\ pc = "check"
    /\ IF ~config.named_checkzone_bin
       THEN /\ pc' = "dispatch"
            /\ UNCHANGED <<effects, outcome>>
       ELSE \E ok \in BOOLEAN :
              /\ effects' = Append(effects, Step("checkzone", ok))
              /\ IF ok THEN pc' = "dispatch" /\ UNCHANGED outcome
                 ELSE Ends("error")
    /\ UNCHANGED <<config, live, zoneFile, plan, plan_ignore, assume_yes, answer, sent>>
    /\ UNCHANGED <<diffVars, soaVars, recVars>>

\* lines 81-82, 123-129: _reload_zone
ReloadZone ==
    /\ pc = "dispatch"
    /\ config.apply_strategy = "zone"
    /\ IF ~config.rndc_bin
       THEN /\ Ends("error")
            /\ UNCHANGED <<effects, live>>
       ELSE \E ok \in BOOLEAN :
              /\ effects' = Append(effects, Step("reload", ok))
              /\ IF ok
                 THEN /\ live' = ReloadedZone(live, zoneFile[1])
                      /\ pc' = "commit"
                      /\ UNCHANGED outcome
                 ELSE /\ UNCHANGED live
                      /\ Ends("error")
    /\ UNCHANGED <<config, zoneFile, plan, plan_ignore, assume_yes, answer, sent>>
    /\ UNCHANGED <<diffVars, soaVars, recVars>>

\* _apply_dynamic_updates ignoring the response code
ApplyDynamicUpdatesIgnoringRcode ==
    /\ pc = "dispatch"
    /\ config.apply_strategy # "zone"
    /\ \E ok \in BOOLEAN :
         /\ effects' = Append(effects, Step("update", ok))
         /\ sent' = Append(sent, BuildUpdate(plan[1].diff))
         /\ live' = IF ok THEN ServerApply(live, BuildUpdate(plan[1].diff)) ELSE live
         /\ pc' = "commit"
    /\ UNCHANGED <<config, zoneFile, plan, plan_ignore, assume_yes, answer, outcome>>
    /\ UNCHANGED <<diffVars, soaVars, recVars>>

\* lines 83-84, 132-178: _apply_dynamic_updates
ApplyDynamicUpdates ==
    /\ pc = "dispatch"
    /\ config.apply_strategy # "zone"
    /\ LET update == BuildUpdate(plan[1].diff)
       IN  IF ~has_changes(plan[1].diff)
           THEN /\ pc' = "commit"
                /\ UNCHANGED <<effects, sent, live, outcome>>
           ELSE \E ok \in BOOLEAN :
                  /\ effects' = Append(effects, Step("update", ok))
                  /\ sent' = Append(sent, update)
                  /\ IF ok
                     THEN /\ live' = ServerApply(live, update)
                          /\ pc' = "commit"
                          /\ UNCHANGED outcome
                     ELSE /\ UNCHANGED live
                          /\ Ends("error")
    /\ UNCHANGED <<config, zoneFile, plan, plan_ignore, assume_yes, answer>>
    /\ UNCHANGED <<diffVars, soaVars, recVars>>

\* gitops.py lines 34-40: auto_commit runs git add, then git commit;
\* _run_git raises when git exits non-zero
auto_commit(add_ok, commit_ok) ==
    IF ~add_ok THEN <<Step("git_add", FALSE)>>
    ELSE <<Step("git_add", TRUE), Step("git_commit", commit_ok)>>

\* lines 85-88: the auto-commit and the end of apply()
AutoCommit ==
    /\ pc = "commit"
    /\ \E is_git_repo \in BOOLEAN, add_ok \in BOOLEAN, commit_ok \in BOOLEAN :
         IF config.git_auto_commit /\ is_git_repo
         THEN LET steps == auto_commit(add_ok, commit_ok)
              IN  /\ effects' = effects \o steps
                  /\ IF \A i \in 1..Len(steps) : steps[i].ok
                     THEN Ends("applied")
                     ELSE Ends("error")
         ELSE /\ UNCHANGED effects
              /\ Ends("applied")
    /\ UNCHANGED <<config, live, zoneFile, plan, plan_ignore, assume_yes, answer, sent>>
    /\ UNCHANGED <<diffVars, soaVars, recVars>>

Next ==
    \/ Plan
    \/ PlanFails
    \/ ApplyBegin
    \/ Confirm
    \/ ConfirmFails
    \/ WriteZoneFile
    \/ CheckZone
    \/ ReloadZone
    \/ ApplyDynamicUpdates
    \/ AutoCommit

Spec == Init /\ [][Next]_vars


---------------------------------------------------------------------------
(* controller.py: the SOA negotiator. *)

\* None is <<>>, any other value v is <<v>>
None == <<>>
Some(v) == <<v>>

\* bool(x) of an int | None and of a str | None
IntTruthy(o) == o # None /\ o[1] # 0
StrTruthy(o) == o # None /\ o[1] # <<>>

\* a or b or c
OrInt(a, b, c) == IF IntTruthy(a) THEN a ELSE IF IntTruthy(b) THEN b ELSE c
OrStr(a, b, c) == IF StrTruthy(a) THEN a ELSE IF StrTruthy(b) THEN b ELSE c

SOAFields(ns, mail, serial, refresh, retry, expire, minimum) ==
    [primary_ns |-> ns, admin_email |-> mail, serial |-> serial, refresh |-> refresh,
     retry |-> retry, expire |-> expire, minimum |-> minimum]

\* {}.get(field) for every field
NoFields == SOAFields(None, None, None, None, None, None, None)

\* ZoneState.find_soa
find_soa(records) ==
    LET soas == SelectSeq(records, LAMBDA r : canonical_type(r) = T_SOA)
    IN  IF soas = <<>> THEN None ELSE Some(soas[1])

\* what a call that may raise yields
Raised == [raised |-> TRUE]
Returned(v) == [raised |-> FALSE, value |-> v]

\* _parse_soa_record
_parse_soa_record(record) ==
    LET parts == Split(record.value)
    IN  IF Len(parts) < 7 THEN Raised
        ELSE Returned(SOAFields(Some(parts[1]), Some(parts[2]), Some(StrToInt(parts[3])),
                                Some(StrToInt(parts[4])), Some(StrToInt(parts[5])),
                                Some(StrToInt(parts[6])), Some(StrToInt(parts[7]))))

\* the candidate serial of a strategy at the instant clock
Candidate(strategy, clock) ==
    IF strategy = "epoch" THEN clock.epoch
    ELSE StrToInt(clock.date \o <<"0", "0">>)

\* lines 205-206: while candidate <= current_serial: candidate += 1
RECURSIVE BumpSerial(_, _)
BumpSerial(candidate, current_serial) ==
    IF candidate <= current_serial THEN BumpSerial(candidate + 1, current_serial)
    ELSE candidate

\* _suggest_serial stopping at a candidate equal to the live serial
SuggestSerialUpTo(strategy, clock, current_serial) ==
    LET candidate == Candidate(strategy, clock)
    IN  IF current_serial = None THEN candidate
        ELSE IF candidate < current_serial[1] THEN current_serial[1]
        ELSE candidate

_suggest_serial(strategy, clock, current_serial) ==
    LET candidate == Candidate(strategy, clock)
    IN  IF current_serial = None THEN candidate
        ELSE BumpSerial(candidate, current_serial[1])

\* _build_soa_config
_build_soa_config(strategy, clock, desired_origin, overrides, current) ==
    LET base_record == find_soa(current)
        parsed      == IF base_record # None THEN _parse_soa_record(base_record[1])
                       ELSE Returned(NoFields)
    IN  IF parsed.raised THEN Raised
        ELSE LET base        == parsed.value
                 primary_ns  == OrStr(overrides.primary_ns, base.primary_ns,
                                      Some(<<"n", "s", ".">> \o desired_origin))
                 admin_email == OrStr(overrides.admin_email, base.admin_email,
                                      Some(<<"h","o","s","t","m","a","s","t","e","r",".">>
                                           \o desired_origin))
                 serial_override == overrides.serial
                 current_serial  == base.serial
                 serial == IF IntTruthy(serial_override) THEN serial_override[1]
                           ELSE _suggest_serial(strategy, clock, current_serial)
             IN  Returned(SOAFields(primary_ns[1], admin_email[1], serial,
                                    OrInt(overrides.refresh, base.refresh, Some(3600))[1],
                                    OrInt(overrides.retry,   base.retry,   Some(600))[1],
                                    OrInt(overrides.expire,  base.expire,  Some(604800))[1],
                                    OrInt(overrides.minimum, base.minimum, Some(86400))[1]))

---------------------------------------------------------------------------
(* The SOA negotiator applied to one negotiation. *)

\* two instants: 2026-11-03 12:00:00 UTC and 2021-05-01 00:00:00 UTC
Instants ==
    { [epoch |-> 1793707200, date |-> <<"2","0","2","6","1","1","0","3">>],
      [epoch |-> 1619827200, date |-> <<"2","0","2","1","0","5","0","1">>] }

SerialStrategies == {"date", "epoch"}

\* how far the live serial is from the candidate: yesterday's, today's, one
\* ahead, and as far ahead as the model goes
SerialLeads == {0 - 100, 0, 1, MaxSerialLead}

\* the live serials for a strategy at an instant; the last one is an epoch
\* serial, far behind a date candidate
LiveSerials(strategy, clock) ==
    {Candidate(strategy, clock) + d : d \in SerialLeads} \cup {clock.epoch}

\* the rdata text of an SOA record as an AXFR returns it
SoaValue(serial, refresh, retry, expire, minimum) ==
    Join(<< <<"n", ".">>, <<"h", ".">>, IntToStr(serial), IntToStr(refresh),
            IntToStr(retry), IntToStr(expire), IntToStr(minimum) >>)

\* the current zone states: without an SOA, with a well-formed SOA (timers
\* set, or all zero), and with an SOA of fewer than seven tokens
CurrentZones(strategy, clock) ==
    { <<>>,
      << Rec(N_z, T_SOA, 300, <<"n", ".", " ", "h", ".", " ", "1">>, NoPriority) >> }
    \cup { << Rec(N_z, T_SOA, 300, SoaValue(p, 7200, 900, 1209600, 300), NoPriority),
              Rec(N_A_z, T_A, 300, V_1, NoPriority) >> : p \in LiveSerials(strategy, clock) }
    \cup { << Rec(N_z, T_SOA, 300, SoaValue(p, 0, 0, 0, 0), NoPriority) >> :
             p \in LiveSerials(strategy, clock) }

\* SOASpec.dict(): no override, a serial below the live one, a serial of 0,
\* timers of 0, and every field overridden
SoaOverrides ==
    { NoFields,
      [NoFields EXCEPT !.serial = Some(5)],
      [NoFields EXCEPT !.serial = Some(0)],
      [NoFields EXCEPT !.refresh = Some(0), !.minimum = Some(0)],
      SOAFields(Some(<<"p", ".">>), Some(<<"m", ".">>), Some(7), Some(1), Some(2),
                Some(3), Some(4)) }

InitSoa ==
    /\ serial_strategy \in SerialStrategies
    /\ now \in Instants
    /\ soa_overrides \in SoaOverrides
    /\ current_soa \in CurrentZones(serial_strategy, now)
    /\ soaOut = <<>>
    /\ InitDiffIdle
    /\ InitCtlIdle
    /\ InitRecIdle

\* plan() line 54: soa = _build_soa_config(self.config, desired_zone, current_state)
CallBuildSoaConfig ==
    /\ soaOut = <<>>
    /\ soaOut' = <<_build_soa_config(serial_strategy, now, Origin, soa_overrides, current_soa)>>
    /\ UNCHANGED <<serial_strategy, now, soa_overrides, current_soa>>
    /\ UNCHANGED <<diffVars, ctlVars, recVars>>

NextSoa == CallBuildSoaConfig

SpecSoa == InitSoa /\ [][NextSoa]_vars

---------------------------------------------------------------------------
(* The record model applied to one owner and one origin. *)

\* owner strings: empty, "@", ".", blank, padded, mixed case, with and
\* without the trailing dot, the apex, one and two labels below it, and
\* names outside the zone, one of which ends with the characters of the origin
OwnerStrings ==
    { <<>>, <<"@">>, <<".">>, <<" ">>, <<" ", "@", " ">>,
      <<"z", ".">>, <<"Z">>,
      <<"a", ".", "z", ".">>, <<" ", "A", ".", "Z", " ">>,
      <<"b", ".", "a", ".", "z", ".">>,
      <<"n", "o", "t", "z", ".">>, <<"a", ".", "n", "o", "t", "z", ".">>,
      <<"y", ".">>, <<"a", ".", "z", ".", "y", ".">> }

OriginStrings == { <<"z", ".">>, <<"Z">>, <<"a", ".", "z", ".">>, <<".">> }

InitRec ==
    /\ ownerIn \in OwnerStrings
    /\ originIn \in OriginStrings
    /\ canonOut = <<>>
    /\ relativeOut = <<>>
    /\ InitDiffIdle
    /\ InitCtlIdle
    /\ InitSoaIdle

\* a record of the given owner
OwnedBy(name) == Rec(name, T_A, 300, V_1, NoPriority)

\* canonical_name() of the record, and of a record named by the result
CallCanonicalName ==
    /\ canonOut = <<>>
    /\ LET once == canonical_name(OwnedBy(ownerIn))
       IN  canonOut' = <<once, canonical_name(OwnedBy(once))>>
    /\ UNCHANGED <<ownerIn, originIn, relativeOut>>
    /\ UNCHANGED <<diffVars, ctlVars, soaVars>>

\* owner_for_zone(origin) of the record
CallOwnerForZone ==
    /\ relativeOut = <<>>
    /\ relativeOut' = <<owner_for_zone(OwnedBy(ownerIn), originIn)>>
    /\ UNCHANGED <<ownerIn, originIn, canonOut>>
    /\ UNCHANGED <<diffVars, ctlVars, soaVars>>

NextRec == CallCanonicalName \/ CallOwnerForZone

SpecRec == InitRec /\ [][NextRec]_vars

---------------------------------------------------------------------------
(* Properties. *)

HasStep(name) == \E i \in 1..Len(effects) : effects[i].step = name

Failed(name) == \E i \in 1..Len(effects) : effects[i] = Step(name, FALSE)

Unchanged(d) == d.added = <<>> /\ d.removed = <<>> /\ d.ttl_changed = <<>>

\* the answers of Answers that are y or yes once trimmed and lower-cased
AffirmativeAnswers == { <<"y">>, <<" ", "Y", "E", "S", " ">> }

\* the operations the update sender is typed with
DeleteOf(r) == [op |-> "delete", name |-> r.name, ttl |-> <<>>, type |-> r.type,
                value |-> r.value]
AddOf(r)    == [op |-> "add", name |-> r.name, ttl |-> <<r.ttl>>, type |-> r.type,
                value |-> r.value]

OpKey(o) == <<Lower(_ensure_absolute(o.name)), Upper(o.type)>>

Count(o, ops) == Cardinality({i \in 1..Len(ops) : ops[i] = o})

\* how often the diff d asks for the operation o
Wanted(o, d) ==
    Cardinality({i \in 1..Len(d.removed) : DeleteOf(d.removed[i]) = o})
    + Cardinality({i \in 1..Len(d.ttl_changed) : DeleteOf(d.ttl_changed[i][1]) = o})
    + Cardinality({i \in 1..Len(d.added) : AddOf(d.added[i]) = o})
    + Cardinality({i \in 1..Len(d.ttl_changed) : AddOf(d.ttl_changed[i][2]) = o})

WantedOps(d) ==
    {DeleteOf(d.removed[i]) : i \in 1..Len(d.removed)}
    \cup {DeleteOf(d.ttl_changed[i][1]) : i \in 1..Len(d.ttl_changed)}
    \cup {AddOf(d.added[i]) : i \in 1..Len(d.added)}
    \cup {AddOf(d.ttl_changed[i][2]) : i \in 1..Len(d.ttl_changed)}

\* the place of a step in the order write, validate, dispatch, auto-commit
Rank(step) ==
    CASE step = "confirm"    -> 0
      [] step = "write"      -> 1
      [] step = "checkzone"  -> 2
      [] step = "reload"     -> 3
      [] step = "update"     -> 3
      [] step = "git_add"    -> 4
      [] step = "git_commit" -> 5

\* C1: apply() on a plan whose diff has no added, removed or ttl_changed
\* entry returns at once, as a no-op: no prompt, no write, no validator, no
\* reload, no update, no commit, the zone file and the live zone as they
\* were, whatever the strategy and assume_yes, and on every such call; no
\* apply() is ever past its entry on such a plan.
C1_UnchangedPlanIsNoOp ==
    /\ [](pc # "idle" => ~Unchanged(plan[1].diff))
    /\ [][ (pc = "idle" /\ plan # <<>> /\ plan' = plan /\ plan_ignore' = plan_ignore
              /\ Unchanged(plan[1].diff))
           => /\ pc' = "idle"
              /\ outcome' = "noop"
              /\ effects' = <<>>
              /\ sent' = <<>>
              /\ answer' = <<>>
              /\ live' = live
              /\ zoneFile' = zoneFile ]_vars

\* C1 witness: an unchanged plan was applied as a no-op by a zone-strategy
\* controller with auto-commit on, after an earlier apply() had written the file
C1_Witness ==
    /\ pc = "idle" /\ outcome = "noop"
    /\ plan # <<>> /\ Unchanged(plan[1].diff)
    /\ zoneFile # <<>>
    /\ config.apply_strategy = "zone" /\ config.git_auto_commit

\* C2: without assume_yes the prompt is the first step of apply(); an answer
\* that is not y or yes (trimmed, any case) ends apply() aborted with the
\* prompt as its only step: nothing written, validated, reloaded, sent or
\* committed, and the prompt step itself changes neither the zone file nor
\* the live zone; with assume_yes there is no prompt.
C2_ConfirmGate ==
    /\ []( /\ (answer # <<>> /\ answer[1] \notin AffirmativeAnswers)
              => /\ pc = "idle" /\ outcome = "aborted"
                 /\ effects = <<Step("confirm", TRUE)>>
                 /\ sent = <<>>
           /\ (~assume_yes /\ pc \notin {"idle", "confirm"})
              => /\ effects # <<>> /\ effects[1] = Step("confirm", TRUE)
                 /\ answer # <<>> /\ answer[1] \in AffirmativeAnswers
           /\ (~assume_yes /\ effects # <<>>) => effects[1].step = "confirm"
           /\ outcome = "aborted" => effects = <<Step("confirm", TRUE)>>
           /\ assume_yes => (answer = <<>> /\ ~HasStep("confirm")) )
    /\ [][ pc = "confirm" => (live' = live /\ zoneFile' = zoneFile) ]_vars

\* C2 witness: the operator typed "ye" and apply() ended aborted
C2_Witness ==
    /\ pc = "idle" /\ outcome = "aborted"
    /\ answer = << <<"y", "e">> >>

\* C3: once the configured zone checker has exited non-zero the apply() has
\* failed and has issued no reload and sent no update; the checker step
\* changes the live zone in no case; a reload or an update of a controller
\* with a checker configured comes after a checker run that passed.
C3_CheckerFailureStopsBeforeDispatch ==
    /\ []( /\ Failed("checkzone")
              => /\ pc = "idle" /\ outcome = "error"
                 /\ ~HasStep("reload") /\ ~HasStep("update")
                 /\ sent = <<>>
           /\ \A i, j \in 1..Len(effects) :
                (effects[i].step = "checkzone" /\ effects[j].step \in {"reload", "update"})
                => i < j
           /\ (config.named_checkzone_bin /\ (HasStep("reload") \/ HasStep("update")))
              => \E i \in 1..Len(effects) : effects[i] = Step("checkzone", TRUE) )
    /\ [][ pc = "check" => live' = live ]_vars

\* C3 witness: the checker failed under the dynamic strategy
C3_Witness ==
    /\ Failed("checkzone")
    /\ config.apply_strategy = "dynamic"
    /\ zoneFile # <<>>

\* C4: after a write, a validation and a dispatch that succeeded, a failing
\* git add or git commit leaves apply() in the applied outcome.
C4_CommitFailureKeepsApplied ==
    (pc = "idle" /\ (Failed("git_add") \/ Failed("git_commit"))) => outcome = "applied"

\* C5: the steps of one apply() call run in the order write, validate,
\* dispatch (reload or update), git add, git commit, each at most once; a
\* failed write, validator, reload or update is the last step of the call,
\* which has ended with an error; at most one update message is sent.
C5_SingleShotFailStop ==
    /\ \A i, j \in 1..Len(effects) :
         i < j => Rank(effects[i].step) < Rank(effects[j].step)
    /\ \A i \in 1..Len(effects) :
         (~effects[i].ok /\ effects[i].step \in {"write", "checkzone", "reload", "update"})
         => (i = Len(effects) /\ pc = "idle" /\ outcome = "error")
    /\ \A i \in 1..Len(effects) :
         effects[i].step \in {"checkzone", "reload", "update", "git_add", "git_commit"}
         => \E j \in 1..(i - 1) : effects[j] = Step("write", TRUE)
    /\ \A i \in 1..Len(effects) :
         effects[i].step \in {"git_add", "git_commit"}
         => \E j \in 1..(i - 1) : effects[j] \in {Step("reload", TRUE), Step("update", TRUE)}
    /\ Len(sent) <= 1

\* C5 witness: the update sender answered with a failure under auto-commit
C5_Witness ==
    /\ pc = "idle" /\ outcome = "error"
    /\ config.git_auto_commit
    /\ Failed("update")
    /\ effects[Len(effects)] = Step("update", FALSE)

\* C6: in the update message every delete of an (owner, type) comes before
\* every add of that (owner, type); for each ttl_changed pair the delete of
\* the old record and the add of the new one are both there, the delete
\* first; a diff that is one TTL change yields exactly <<delete, add>>.
C6_DeleteBeforeAdd ==
    dpc = "built" =>
      /\ \A i, j \in 1..Len(updateAB) :
           (updateAB[i].op = "delete" /\ updateAB[j].op = "add"
              /\ OpKey(updateAB[i]) = OpKey(updateAB[j]))
           => i < j
      /\ \A k \in 1..Len(diffAB.ttl_changed) :
           /\ \E i, j \in 1..Len(updateAB) :
                /\ i < j
                /\ updateAB[i] = DeleteOf(diffAB.ttl_changed[k][1])
                /\ updateAB[j] = AddOf(diffAB.ttl_changed[k][2])
           /\ \A i, j \in 1..Len(updateAB) :
                (updateAB[i] = DeleteOf(diffAB.ttl_changed[k][1])
                   /\ updateAB[j] = AddOf(diffAB.ttl_changed[k][2]))
                => i < j
      /\ (diffAB.added = <<>> /\ diffAB.removed = <<>> /\ Len(diffAB.ttl_changed) = 1)
         => updateAB = << DeleteOf(diffAB.ttl_changed[1][1]), AddOf(diffAB.ttl_changed[1][2]) >>

\* C6 witness: a diff that is a single TTL change, 600 now and 300 wanted
C6_Witness ==
    /\ dpc = "built"
    /\ diffAB.added = <<>> /\ diffAB.removed = <<>>
    /\ Len(diffAB.ttl_changed) = 1
    /\ diffAB.ttl_changed[1][1].ttl = 600 /\ diffAB.ttl_changed[1][2].ttl = 300
    /\ Len(updateAB) = 2

\* C7: the dynamic strategy sends one message per apply(), holding exactly
\* one delete per removed record, one delete of the old and one add of the
\* desired record per ttl_changed pair and one add per added record, so
\* |removed| + |added| + 2 * |ttl_changed| operations; the zone strategy
\* sends none.
C7_ExactBatch ==
    /\ []( /\ (HasStep("update") <=> sent # <<>>)
           /\ Len(sent) <= 1
           /\ config.apply_strategy = "zone" => sent = <<>> )
    /\ [][ (sent' # sent /\ sent' # <<>>)
           => LET d == plan[1].diff
              IN  /\ sent = <<>> /\ Len(sent') = 1
                  /\ plan' = plan
                  /\ Len(sent'[1]) = Len(d.removed) + Len(d.added) + 2 * Len(d.ttl_changed)
                  /\ \A o \in WantedOps(d) \cup {sent'[1][i] : i \in 1..Len(sent'[1])} :
                       Count(o, sent'[1]) = Wanted(o, d) ]_vars

\* C7 witness: a message of four operations for a diff with a removed, an
\* added and a ttl_changed entry
C7_Witness ==
    /\ pc = "commit"
    /\ sent # <<>>
    /\ Len(sent[1]) = 4
    /\ Len(plan[1].diff.removed) = 1
    /\ Len(plan[1].diff.added) = 1
    /\ Len(plan[1].diff.ttl_changed) = 1

\* C8: a plan() call, whether it returns or raises, leaves the live zone and
\* the zone file as they are and runs no external step: no validator, no
\* reload, no update, no commit; so also after a failed apply().
C8_PlanIsReadOnly ==
    [][ (pc = "idle" /\ (plan' # plan \/ plan_ignore' # plan_ignore))
        => /\ live' = live
           /\ zoneFile' = zoneFile
           /\ effects' = effects
           /\ sent' = sent
           /\ outcome' = outcome
           /\ pc' = "idle" ]_vars

\* C8 witness: plan() returned after an apply() that failed once it had
\* written the file of an earlier, different plan
C8_Witness ==
    /\ pc = "idle" /\ outcome = "error"
    /\ plan # <<>> /\ zoneFile # <<>>
    /\ zoneFile[1] # plan[1].render

\* C9: diff_zones(A, B).added is diff_zones(B, A).removed and
\* diff_zones(A, B).removed is diff_zones(B, A).added, as record lists.
C9_DiffSymmetry ==
    dpc # "start" =>
      /\ diffAB.added = diffBA.removed
      /\ diffAB.removed = diffBA.added

\* C9 witness: A holds one identity twice, spelled differently, and B lacks
\* it while holding a record A lacks
C9_Witness ==
    /\ dpc = "done"
    /\ Len(zoneA) = 2 /\ zoneA[1] # zoneA[2] /\ key(zoneA[1]) = key(zoneA[2])
    /\ Len(diffAB.added) = 1
    /\ Len(diffAB.removed) = 1

\* C10: diff_zones(A, A) has no added, removed or ttl_changed entry, so
\* has_changes() is false, also when A holds one identity with two TTLs.
C10_DiffNoOp ==
    dpc # "start" =>
      /\ diffAA.added = <<>>
      /\ diffAA.removed = <<>>
      /\ diffAA.ttl_changed = <<>>
      /\ ~has_changes(diffAA)

\* C10 witness: A holds the same (owner, type, value) with TTL 300 and 600
C10_Witness ==
    /\ dpc = "done"
    /\ Len(zoneA) = 2
    /\ key(zoneA[1]) = key(zoneA[2])
    /\ zoneA[1].ttl # zoneA[2].ttl

---------------------------------------------------------------------------
(* Properties of the diff engine, value by value. *)

NonSoa(z) == SelectSeq(z, LAMBDA r : canonical_type(r) # T_SOA)

\* the identity keys of a record list, entry by entry
KeysOf(recs) == [i \in 1..Len(recs) |-> key(recs[i])]

Range(f) == {f[i] : i \in DOMAIN f}

\* the record that stands for the identity k in a record list with the keys
\* ks: the last one listed
Eff(recs, ks, k) ==
    recs[CHOOSE i \in 1..Len(recs) :
        /\ ks[i] = k
        /\ \A j \in (i + 1)..Len(recs) : ks[j] # k]

\* the entries of a list whose key, listed in ks, is k
WithKey(entries, ks, k) ==
    LET idx == {i \in 1..Len(entries) : ks[i] = k}
        RECURSIVE Pick(_)
        Pick(i) == IF i > Len(entries) THEN <<>>
                   ELSE IF i \in idx THEN <<entries[i]>> \o Pick(i + 1) ELSE Pick(i + 1)
    IN  Pick(1)

\* C11: diff_zones(desired, current) classifies every identity (canonical
\* owner, type, value) by that identity alone: only in desired, it is added
\* once; only in current, it is removed once; in both with different TTLs, it
\* is one ttl_changed pair <<current record, desired record>> and neither
\* added nor removed; in both with one TTL, it has no entry. Here A is the
\* desired and B the current state.
C11_PerValueClassification ==
    dpc = "done" =>
      LET desired  == NonSoa(zoneA)
          current  == NonSoa(zoneB)
          dKeys    == KeysOf(desired)
          cKeys    == KeysOf(current)
          aKeys    == KeysOf(diffAB.added)
          rKeys    == KeysOf(diffAB.removed)
          tKeys    == [i \in 1..Len(diffAB.ttl_changed) |-> key(diffAB.ttl_changed[i][1])]
          uKeys    == [i \in 1..Len(diffAB.ttl_changed) |-> key(diffAB.ttl_changed[i][2])]
      IN  /\ tKeys = uKeys
          /\ Range(aKeys) \cup Range(rKeys) \cup Range(tKeys) \subseteq Range(dKeys) \cup Range(cKeys)
          /\ \A k \in Range(dKeys) \cup Range(cKeys) :
                LET inDesired == k \in Range(dKeys)
                    inCurrent == k \in Range(cKeys)
                    added     == WithKey(diffAB.added, aKeys, k)
                    removed   == WithKey(diffAB.removed, rKeys, k)
                    changed   == WithKey(diffAB.ttl_changed, tKeys, k)
                IN  /\ (inDesired /\ ~inCurrent)
                       => /\ added = <<Eff(desired, dKeys, k)>>
                          /\ removed = <<>> /\ changed = <<>>
                    /\ (~inDesired /\ inCurrent)
                       => /\ removed = <<Eff(current, cKeys, k)>>
                          /\ added = <<>> /\ changed = <<>>
                    /\ (inDesired /\ inCurrent
                          /\ Eff(desired, dKeys, k).ttl # Eff(current, cKeys, k).ttl)
                       => /\ changed = << <<Eff(current, cKeys, k), Eff(desired, dKeys, k)>> >>
                          /\ added = <<>> /\ removed = <<>>
                    /\ (inDesired /\ inCurrent
                          /\ Eff(desired, dKeys, k).ttl = Eff(current, cKeys, k).ttl)
                       => (added = <<>> /\ removed = <<>> /\ changed = <<>>)

\* C11 witness: current holds two values of a.z. A, desired keeps one of them
\* with another TTL: one ttl_changed pair, the other value removed, none added
C11_Witness ==
    /\ dpc = "done"
    /\ Len(zoneB) = 2 /\ Len(zoneA) = 1
    /\ <<canonical_name(zoneB[1]), canonical_type(zoneB[1])>>
         = <<canonical_name(zoneB[2]), canonical_type(zoneB[2])>>
    /\ key(zoneB[1]) # key(zoneB[2])
    /\ Len(diffAB.ttl_changed) = 1
    /\ diffAB.ttl_changed[1] = <<zoneB[1], zoneA[1]>>
    /\ diffAB.removed = <<zoneB[2]>>
    /\ diffAB.added = <<>>

IsSoa(r) == Upper(r.type) = <<"S", "O", "A">>

\* the records a diff names, on either side
DiffRecordsOf(d) ==
    Range(d.added) \cup Range(d.removed)
    \cup {d.ttl_changed[i][1] : i \in 1..Len(d.ttl_changed)}
    \cup {d.ttl_changed[i][2] : i \in 1..Len(d.ttl_changed)}

\* C12: whatever the two zone states, no record whose type is SOA in any
\* letter case is in added, in removed or on either side of a ttl_changed
\* pair of diff_zones, and the update message built from the diff holds no
\* delete and no add of an SOA record.
C12_SoaNeverInDiff ==
    /\ dpc # "start" =>
         \A r \in DiffRecordsOf(diffAB) \cup DiffRecordsOf(diffBA) \cup DiffRecordsOf(diffAA) :
           ~IsSoa(r)
    /\ dpc = "built" =>
         \A i \in 1..Len(updateAB) : ~IsSoa(updateAB[i])

\* C12 witness: desired and current hold different SOA records, spelled soa
\* and Soa, desired also an A record of the apex: the message is one add
C12_Witness ==
    /\ dpc = "built"
    /\ \E i \in 1..Len(zoneA), j \in 1..Len(zoneB) :
         /\ IsSoa(zoneA[i]) /\ IsSoa(zoneB[j])
         /\ zoneA[i].type # T_SOA /\ zoneB[j].type # T_SOA
         /\ key(zoneA[i]) # key(zoneB[j])
         /\ zoneA[i].ttl # zoneB[j].ttl
    /\ Len(updateAB) = 1 /\ updateAB[1].op = "add"

---------------------------------------------------------------------------
(* Properties of the SOA negotiator. *)

\* the serial of the live SOA: the third token of its rdata text
LiveSerial == StrToInt(Split(find_soa(current_soa)[1].value)[3])

\* the candidate of the configured strategy at the instant now
StrategyCandidate ==
    IF serial_strategy = "epoch" THEN now.epoch ELSE StrToInt(now.date) * 100

\* C13: without a serial override, the negotiated serial S is the strategy
\* candidate C (date: YYYYMMDD00 in UTC, epoch: Unix seconds) when there is
\* no live SOA; with a live SOA of serial P it exceeds P, being C when C > P
\* and P + 1 when C <= P.
C13_SerialMonotone ==
    (soaOut # <<>> /\ ~soaOut[1].raised /\ soa_overrides.serial = None) =>
      LET S == soaOut[1].value.serial
          C == StrategyCandidate
      IN  /\ serial_strategy = "date" => IntToStr(C) = now.date \o <<"0", "0">>
          /\ IF find_soa(current_soa) = None THEN S = C
             ELSE LET P == LiveSerial
                  IN  /\ S > P
                      /\ C > P => S = C
                      /\ C <= P => S = P + 1

\* C13 witness: the date strategy, a live serial of a later day, no override:
\* the negotiated serial is the live serial plus one
C13_Witness ==
    /\ soaOut # <<>> /\ ~soaOut[1].raised
    /\ soa_overrides.serial = None
    /\ serial_strategy = "date"
    /\ find_soa(current_soa) # None
    /\ LiveSerial > StrategyCandidate
    /\ soaOut[1].value.serial = LiveSerial + 1

\* the value the resolution order override > live > fallback gives a field
Resolved(field, fallback) ==
    IF soa_overrides[field] # None THEN soa_overrides[field][1]
    ELSE IF find_soa(current_soa) # None
         THEN _parse_soa_record(find_soa(current_soa)[1]).value[field][1]
    ELSE fallback

\* C14: each of primary_ns, admin_email, refresh, retry, expire and minimum
\* is the override when one is supplied, 0 included, else the live SOA's
\* value when there is a live SOA, 0 included, else the fallback (ns.<origin>,
\* hostmaster.<origin>, 3600, 600, 604800, 86400); a supplied serial
\* override, 0 included, is the negotiated serial.
C14_FieldResolution ==
    (soaOut # <<>> /\ ~soaOut[1].raised) =>
      LET out == soaOut[1].value
      IN  /\ out.primary_ns = Resolved("primary_ns", <<"n", "s", ".">> \o Origin)
          /\ out.admin_email =
               Resolved("admin_email", <<"h","o","s","t","m","a","s","t","e","r",".">> \o Origin)
          /\ out.refresh = Resolved("refresh", 3600)
          /\ out.retry = Resolved("retry", 600)
          /\ out.expire = Resolved("expire", 604800)
          /\ out.minimum = Resolved("minimum", 86400)
          /\ soa_overrides.serial # None => out.serial = soa_overrides.serial[1]

---------------------------------------------------------------------------
(* Properties of the record model. *)

\* the canonical forms of the owner and of the origin
CanonicalOwner == Lower(_ensure_absolute(ownerIn))
CanonicalOrigin == Lower(_ensure_absolute(originIn))

\* name is below origin: it ends with a dot and the origin (any name but the
\* root is below the root)
ProperSubdomain(name, org) ==
    IF org = <<".">> THEN name # <<".">>
    ELSE Len(name) > Len(org) + 1 /\ EndsWith(name, <<".">> \o org)

\* name without the origin and the dot before it
RelativeLabel(name, org) ==
    IF org = <<".">> THEN SubSeq(name, 1, Len(name) - 1)
    ELSE SubSeq(name, 1, Len(name) - Len(org) - 1)

\* C15: owner_for_zone(origin) is "@" when the canonical name is the
\* canonical origin, the relative label when the canonical name is a proper
\* subdomain of the origin, and the canonical name itself for every name
\* outside the zone, also one that ends with the characters of the origin
\* without a label boundary before them.
C15_OwnerForZone ==
    relativeOut # <<>> =>
      IF CanonicalOwner = CanonicalOrigin THEN relativeOut[1] = <<"@">>
      ELSE IF ProperSubdomain(CanonicalOwner, CanonicalOrigin)
           THEN relativeOut[1] = RelativeLabel(CanonicalOwner, CanonicalOrigin)
      ELSE relativeOut[1] = CanonicalOwner

\* C17: canonical_name of a canonical name is that canonical name, for every
\* owner string; "@" and the empty string canonicalise to ".".
C17_CanonicalNameIdempotent ==
    canonOut # <<>> =>
      /\ canonOut[2] = canonOut[1]
      /\ ownerIn \in {<<>>, <<"@">>} => canonOut[1] = <<".">>

\* C17 witness: a padded, mixed-case owner without the trailing dot
C17_Witness ==
    /\ canonOut # <<>>
    /\ ownerIn = <<" ", "A", ".", "Z", " ">>
    /\ canonOut[1] = <<"a", ".", "z", ".">>

---------------------------------------------------------------------------
(* Properties of the operations of the dynamic strategy. *)

\* C20: two records of a diff with different identity keys (canonical name,
\* canonical type, canonical value with the priority prefixed) never yield
\* the same delete(name, type, value) nor the same add(name, ttl, type,
\* value) in the update message; so two MX records that differ in priority
\* alone yield two different operations.
C20_OpsIdentifyRecords ==
    dpc = "built" =>
      LET d       == diffAB
          deleted == d.removed \o [i \in 1..Len(d.ttl_changed) |-> d.ttl_changed[i][1]]
          written == d.added \o [i \in 1..Len(d.ttl_changed) |-> d.ttl_changed[i][2]]
          n       == Len(deleted)
      IN  /\ Len(updateAB) = n + Len(written)
          /\ \A i, j \in 1..n :
               key(deleted[i]) # key(deleted[j]) => updateAB[i] # updateAB[j]
          /\ \A i, j \in 1..Len(written) :
               key(written[i]) # key(written[j]) => updateAB[n + i] # updateAB[n + j]

---------------------------------------------------------------------------
(* Properties of the ignore filter. *)

\* the canonical owner name matches one of the patterns, letter case apart
MatchesIgnore(r, patterns) ==
    \E i \in 1..Len(patterns) : fnmatch(canonical_name(r), Lower(patterns[i]))

\* the filter is to drop the record
Ignored(r, patterns) == canonical_type(r) # T_SOA /\ MatchesIgnore(r, patterns)

\* C16: of the current state plan() fetched, the filter drops exactly the
\* records that are not SOA and whose canonical owner matches a pattern,
\* letter case apart, and keeps the others in order; the desired state is
\* not filtered: a desired identity missing from the kept current records is
\* in added, whether or not its owner matches a pattern; no record the
\* filter drops is in removed or on the current side of a ttl_changed pair.
C16_IgnoreFilter ==
    plan # <<>> =>
      LET current == plan[1].current
          desired == NonSoa(plan[1].desired)
          d       == plan[1].diff
          kept    == _filter_records(current, plan_ignore)
          keptKeys == Range(KeysOf(NonSoa(kept)))
      IN  /\ kept = SelectSeq(current, LAMBDA r : ~Ignored(r, plan_ignore))
          /\ \A i \in 1..Len(current) :
               IsSoa(current[i]) => current[i] \in Range(kept)
          /\ \A i \in 1..Len(desired) :
               key(desired[i]) \notin keptKeys
               => key(desired[i]) \in Range(KeysOf(d.added))
          /\ \A i \in 1..Len(d.removed) : ~MatchesIgnore(d.removed[i], plan_ignore)
          /\ \A i \in 1..Len(d.ttl_changed) :
               ~MatchesIgnore(d.ttl_changed[i][1], plan_ignore)

\* C16 witness: the patterns a* and z. against a zone that holds A.z. and the
\* SOA of z.: A.z. is dropped, the SOA is kept, and the desired a.z., which
\* matches a* and is live, is in added
C16_Witness ==
    /\ plan # <<>>
    /\ plan_ignore = << <<"a", "*">>, <<"z", ".">> >>
    /\ LET current == plan[1].current
           kept    == _filter_records(current, plan_ignore)
       IN  /\ \E i \in 1..Len(current) :
                /\ current[i].name = N_A_z
                /\ current[i] \notin Range(kept)
           /\ \E i \in 1..Len(current) :
                /\ IsSoa(current[i]) /\ MatchesIgnore(current[i], plan_ignore)
                /\ current[i] \in Range(kept)
           /\ \E i \in 1..Len(plan[1].diff.added) :
                /\ MatchesIgnore(plan[1].diff.added[i], plan_ignore)
                /\ key(plan[1].diff.added[i]) \in Range(KeysOf(current))

---------------------------------------------------------------------------
(* Properties of plan() followed by apply(). *)

\* the identity keys of the desired state of the plan
DesiredKeys == Range(KeysOf(NonSoa(plan[1].desired)))

\* the dispatch of the running apply() succeeds in this step
DispatchSucceeds == pc = "dispatch" /\ pc' = "commit"

\* C18: when the dispatch of an apply() succeeds, by a reload or by an
\* update, every live record whose owner matches an ignore pattern of the
\* plan and whose identity is not in the desired state is still in the live
\* zone.
C18_IgnoredRecordsSurvive ==
    [][ DispatchSucceeds
        => \A i \in 1..Len(live) :
             (Ignored(live[i], plan_ignore) /\ key(live[i]) \notin DesiredKeys)
             => live[i] \in Range(live') ]_vars

\* plan() is called again on the desired state and the ignore list of the
\* plan that a dynamic apply() has just applied, the live zone being the
\* zone that plan fetched with the operations of its message applied in order
ReplanAfterDynamicApply ==
    /\ pc = "idle" /\ outcome = "applied"
    /\ config.apply_strategy = "dynamic"
    /\ plan # <<>> /\ sent # <<>>
    /\ live = ServerApply(plan[1].current, sent[1])
    /\ plan' # <<>>
    /\ plan'[1].desired = plan[1].desired
    /\ plan'[1].current = live
    /\ plan_ignore' = plan_ignore
    /\ pc' = "idle" /\ outcome' = outcome /\ effects' = effects

\* C19: the plan() that follows a successful dynamic apply() of the same
\* desired state and ignore list, with no other change to the live zone, has
\* a diff without changes.
C19_Convergence ==
    [][ ReplanAfterDynamicApply => ~has_changes(plan'[1].diff) ]_vars

===========================================================================
